---- MODULE Spec2Model ----
(***************************************************************************)
(* Article generator: a Streamlit front end (src/frontend/app.py, and the  *)
(* earlier src/frontend.py) that keeps one generated article in            *)
(* st.session_state, and a FastAPI back end (src/backend.py on Vertex AI,  *)
(* src/backend/main.py on OpenAI) with the two endpoints                   *)
(* /generate-article and /publish-to-devto.                                *)
(*                                                                         *)
(* One step of the model is one run of the Streamlit script (a widget      *)
(* event) or one request of another HTTP client to the publish endpoint.   *)
(* Texts are strings; a title is a sequence of characters so that blank    *)
(* titles and "the prompt contains the title" can be stated.  JSON quotes  *)
(* are left out of the body texts.                                         *)
(***************************************************************************)
EXTENDS Integers, Sequences, FiniteSets, TLC

VARIABLES
    frontend,       \* which script runs: "app" (frontend/app.py) or "legacy" (frontend.py)
    backend,        \* which service runs: "vertex" (backend.py) or "openai" (backend/main.py)
    DEVTO_API_KEY,  \* os.getenv("DEVTO_API_KEY"): a key, or None
    session_state,  \* st.session_state: a function from the keys present to their values
    title,          \* the value of the text input "Enter article title"
    last,           \* the event handled by the last step
    req,            \* the HTTP request that step sent to the back end (NoReq if none)
    resp,           \* the HTTP response the client got for it (NoResp if none)
    calls,          \* the outbound calls the back end made while serving it, each
                    \* with the answer it got
    shown,          \* the message the script rendered for the event
    generated       \* history: title and body of the most recent successful generation

vars == <<frontend, backend, DEVTO_API_KEY, session_state, title, last, req, resp,
          calls, shown, generated>>

----------------------------------------------------------------------------
(* Bounds and input alphabets                                              *)

MaxTitleLen == 1

Chars == {"a", " "}

Titles == UNION {[1..n -> Chars] : n \in 0..MaxTitleLen}

Bodies == {"", "body one", "body two"}

None == "None"

NoReq == [path |-> "none"]

NoResp == [status_code |-> 0]

Nothing == [kind |-> "none"]

----------------------------------------------------------------------------
(* The back end: src/backend.py and src/backend/main.py                    *)

HTTP_OK == 200

HTTP_CREATED == 201

top_k == 40

max_output_tokens == 500

\* The text of the two f-strings around {request.title}.
PromptHead == "Write a technical brief article about "

PromptTail ==
    IF backend = "vertex"
    THEN ". Include a real-world scenario example. This article will be published to dev.to so make sure it is formatted correctly. just have only article content in the response no title or anything else add code snippet if needed"
    ELSE ". Include a real-world scenario example. This article will be published to dev.to so make sure it is formatted correctly."

\* prompt = f"Write a technical brief article about {request.title}. ..."
Prompt(t) == <<PromptHead>> \o t \o <<PromptTail>>

\* GenerationConfig(...) of backend.py; the keyword arguments of
\* client.chat.completions.create(...) of backend/main.py.
generation_config ==
    IF backend = "vertex"
    THEN [temperature |-> "0.2", top_p |-> "0.8", top_k |-> top_k,
          max_output_tokens |-> max_output_tokens]
    ELSE [temperature |-> "0.2", max_tokens |-> max_output_tokens]

\* What the generative-text service does with one call: it returns text, or
\* the call raises (unreachable, error status, no usable text).
ModelOutcomes == [kind : {"text"}, text : Bodies] \cup {[kind |-> "raise"]}

\* FastAPI's answer to an exception escaping a handler.
InternalServerError == [status_code |-> 500, text |-> "Internal Server Error"]

\* FastAPI's answer to a body the request model rejects.
ValidationError(field) ==
    [status_code |-> 422, json |-> [detail |-> <<"missing", field>>]]

\* class ArticleRequest(BaseModel): title: str
ArticleRequest(body) == "title" \in DOMAIN body

\* Mutant: a call that raises is tried once more before giving up.
generate_article_Retries(body, outcome) ==
    LET call == [to |-> backend, prompt |-> Prompt(body.title),
                 config |-> generation_config, answer |-> outcome]
    IN  [resp  |-> IF outcome.kind = "text"
                   THEN [status_code |-> HTTP_OK, json |-> [article |-> outcome.text]]
                   ELSE InternalServerError,
         calls |-> IF outcome.kind = "text" THEN <<call>> ELSE <<call, call>>]

\* POST /generate-article.  The result is the HTTP response and the outbound
\* calls made.  The handler neither inspects the title nor catches anything.
generate_article(body, outcome) ==
    IF ~ArticleRequest(body)
    THEN [resp |-> ValidationError("title"), calls |-> <<>>]
    ELSE LET prompt == Prompt(body.title)
             call == [to |-> backend, prompt |-> prompt, config |-> generation_config,
                      answer |-> outcome]
         IN  [resp  |-> IF outcome.kind = "text"
                        THEN [status_code |-> HTTP_OK, json |-> [article |-> outcome.text]]
                        ELSE InternalServerError,
              calls |-> <<call>>]

\* Mutant: published defaults to True.
PublishRequest_DefaultsToPublished(body) ==
    [title     |-> body.title,
     content   |-> body.content,
     published |-> IF "published" \in DOMAIN body THEN body.published ELSE TRUE]

\* class PublishRequest(BaseModel): title: str; content: str; published: bool = False
PublishRequest(body) ==
    [title     |-> body.title,
     content   |-> body.content,
     published |-> IF "published" \in DOMAIN body THEN body.published ELSE FALSE]

\* Bodies dev.to answers with, as raw text, and what response.json() makes of
\* the ones that are JSON objects.
UrlText1 == "{url: https://dev.to/x/1}"

UrlText99 == "{url: https://dev.to/x/99}"

UnprocessableText == "{error: Unprocessable Entity, status: 422}"

UnauthorizedText == "{error: unauthorized, status: 401}"

BadGatewayText == "<html>502 Bad Gateway</html>"

JsonLoads(text) ==
    CASE text = UrlText1 -> [url |-> "https://dev.to/x/1"]
      [] text = UrlText99 -> [url |-> "https://dev.to/x/99"]
      [] text = UnprocessableText -> [error |-> "Unprocessable Entity", status |-> "422"]
      [] text = UnauthorizedText -> [error |-> "unauthorized", status |-> "401"]

\* What dev.to does with one POST /api/articles: without an api-key header it
\* answers 401; with one it creates the article (201, body with its url) or
\* rejects it; or the connection fails and requests.post raises.
DevtoOutcomes(key) ==
    {[kind |-> "unreachable"],
     [kind |-> "response", status_code |-> 401, text |-> UnauthorizedText],
     [kind |-> "response", status_code |-> 502, text |-> BadGatewayText]}
    \cup (IF key = None THEN {}
          ELSE {[kind |-> "response", status_code |-> HTTP_CREATED, text |-> UrlText1],
                [kind |-> "response", status_code |-> HTTP_CREATED, text |-> UrlText99],
                [kind |-> "response", status_code |-> 422,
                 text |-> UnprocessableText]})

\* Mutant: a rejection is reported with a message of the service's own.
publish_to_devto_OwnMessage(body, key, outcome) ==
    LET call == [to |-> "devto", url |-> "https://dev.to/api/articles",
                 headers |-> [api_key |-> key, content_type |-> "application/json"],
                 json |-> [article |-> [title |-> body.title,
                                        body_markdown |-> body.content,
                                        published |-> PublishRequest(body).published]],
                 answer |-> outcome]
    IN  IF ~({"title", "content"} \subseteq DOMAIN body)
        THEN [resp |-> ValidationError("title or content"), calls |-> <<>>]
        ELSE [resp  |-> IF outcome.kind = "unreachable"
                        THEN InternalServerError
                        ELSE IF outcome.status_code = HTTP_CREATED
                        THEN [status_code |-> HTTP_OK,
                              json |-> [status |-> "success",
                                        url |-> JsonLoads(outcome.text).url]]
                        ELSE [status_code |-> HTTP_OK,
                              json |-> [status |-> "error",
                                        message |-> "Failed to publish article"]],
              calls |-> <<call>>]

\* POST /publish-to-devto.  os.getenv may give None; the request is sent all
\* the same (requests drops a header whose value is None).
publish_to_devto(body, key, outcome) ==
    IF ~({"title", "content"} \subseteq DOMAIN body)
    THEN [resp |-> ValidationError("title or content"), calls |-> <<>>]
    ELSE LET request == PublishRequest(body)
             headers == [api_key |-> key, content_type |-> "application/json"]
             payload == [article |-> [title |-> request.title,
                                      body_markdown |-> request.content,
                                      published |-> request.published]]
             call == [to |-> "devto", url |-> "https://dev.to/api/articles",
                      headers |-> headers, json |-> payload, answer |-> outcome]
         IN  [resp  |-> IF outcome.kind = "unreachable"
                        THEN InternalServerError
                        ELSE IF outcome.status_code = HTTP_CREATED
                        THEN [status_code |-> HTTP_OK,
                              json |-> [status |-> "success",
                                        url |-> JsonLoads(outcome.text).url]]
                        ELSE [status_code |-> HTTP_OK,
                              json |-> [status |-> "error", message |-> outcome.text]],
              calls |-> <<call>>]

----------------------------------------------------------------------------
(* The front end: src/frontend/app.py and src/frontend.py                  *)

Has(s, k) == k \in DOMAIN s

\* st.session_state.get(k, d)
Get(s, k, d) == IF k \in DOMAIN s THEN s[k] ELSE d

\* st.session_state.k = v
Set(s, k, v) == [x \in DOMAIN s \cup {k} |-> IF x = k THEN v ELSE s[x]]

\* del st.session_state.k
Del(s, k) == [x \in DOMAIN s \ {k} |-> s[x]]

EmptySession == [x \in {} |-> None]

\* The assignments after a 200 from /generate-article; frontend.py has no
\* show_preview.
StoreArticle(s, t, article) ==
    LET s1 == Set(s, "generated_article", article)
        s2 == Set(s1, "article_title", t)
    IN  IF frontend = "app" THEN Set(s2, "show_preview", FALSE) ELSE s2

\* Mutant: del st.session_state.article_title is forgotten.
ClearArticle_KeepsTitle(s) ==
    LET s1 == Del(s, "generated_article")
    IN  IF frontend = "app" THEN Del(s1, "show_preview") ELSE s1

\* The del statements after the success message.
ClearArticle(s) ==
    LET s1 == Del(s, "generated_article")
        s2 == Del(s1, "article_title")
    IN  IF frontend = "app" THEN Del(s2, "show_preview") ELSE s2

\* Mutant: the title is read from the text input, not from the session.
PublishBody_UsesInput(s) == [title |-> title, content |-> s["generated_article"]]

\* The json= argument of the publish request: title and content come from the
\* session, and no published field is sent.
PublishBody(s) == [title |-> s["article_title"], content |-> s["generated_article"]]

\* Mutant: the preview button is drawn whatever show_preview says.
PreviewEnabled_Always(s) ==
    /\ frontend = "app"
    /\ Has(s, "generated_article")

\* if not st.session_state.get('show_preview', False): the preview button is drawn
PreviewEnabled(s) ==
    /\ frontend = "app"
    /\ Has(s, "generated_article")
    /\ ~Get(s, "show_preview", FALSE)

\* The publish button is drawn: inside the preview section of app.py, right
\* under the article in frontend.py.
PublishEnabled(s) ==
    /\ Has(s, "generated_article")
    /\ frontend = "app" => Get(s, "show_preview", FALSE)

\* Mutant: the success message is shown but the del statements are missing.
AfterPublish_KeepsArticle(s, r) ==
    IF r.status_code = HTTP_OK /\ "json" \in DOMAIN r /\ "url" \in DOMAIN r.json
    THEN [session |-> s, shown |-> [kind |-> "success", url |-> r.json.url]]
    ELSE [session |-> s, shown |-> [kind |-> "exception", error |-> "KeyError"]]

\* What the script does with the answer to the publish request.  Reading
\* ['url'] or ['message'] raises when the key is missing, .json() raises when
\* the body is no JSON; the exception ends the run before any del.
AfterPublish(s, r) ==
    IF r.status_code = HTTP_OK
    THEN IF "json" \in DOMAIN r /\ "url" \in DOMAIN r.json
         THEN [session |-> ClearArticle(s),
               shown |-> [kind |-> "success", url |-> r.json.url]]
         ELSE [session |-> s, shown |-> [kind |-> "exception", error |-> "KeyError"]]
    ELSE IF "json" \notin DOMAIN r
         THEN [session |-> s, shown |-> [kind |-> "exception", error |-> "JSONDecodeError"]]
         ELSE IF "message" \in DOMAIN r.json
         THEN [session |-> s, shown |-> [kind |-> "error", message |-> r.json.message]]
         ELSE [session |-> s, shown |-> [kind |-> "exception", error |-> "KeyError"]]

ConnectionError == [kind |-> "exception", error |-> "ConnectionError"]

Init ==
    /\ frontend \in {"app", "legacy"}
    /\ backend \in {"vertex", "openai"}
    /\ DEVTO_API_KEY \in {None, "key"}
    /\ session_state = EmptySession
    /\ title = <<>>
    /\ last = "start"
    /\ req = NoReq
    /\ resp = NoResp
    /\ calls = <<>>
    /\ shown = Nothing
    /\ generated = [title |-> <<>>, article |-> None]

\* The user types into the text input: a rerun in which no button is pressed.
EnterTitle(t) ==
    /\ t # title
    /\ title' = t
    /\ last' = "title"
    /\ req' = NoReq
    /\ resp' = NoResp
    /\ calls' = <<>>
    /\ shown' = Nothing
    /\ UNCHANGED <<frontend, backend, DEVTO_API_KEY, session_state, generated>>

\* if st.button("Generate Article"): ...
GenerateArticle(reach, outcome) ==
    LET body == [title |-> title]
        r == generate_article(body, outcome)
    IN  /\ last' = "generate"
        /\ req' = [path |-> "/generate-article", json |-> body]
        /\ IF reach = "down"
           THEN /\ resp' = NoResp
                /\ calls' = <<>>
                /\ shown' = ConnectionError
                /\ UNCHANGED <<session_state, generated>>
           ELSE /\ resp' = r.resp
                /\ calls' = r.calls
                /\ shown' = Nothing
                /\ IF r.resp.status_code = HTTP_OK
                   THEN /\ session_state' = StoreArticle(session_state, title,
                                                         r.resp.json.article)
                        /\ generated' = [title |-> body.title,
                                         article |-> r.resp.json.article]
                   ELSE UNCHANGED <<session_state, generated>>
        /\ UNCHANGED <<frontend, backend, DEVTO_API_KEY, title>>

\* if st.button("Preview on Dev.to"): st.session_state.show_preview = True; st.rerun()
PreviewOnDevto ==
    /\ PreviewEnabled(session_state)
    /\ session_state' = Set(session_state, "show_preview", TRUE)
    /\ last' = "preview"
    /\ req' = NoReq
    /\ resp' = NoResp
    /\ calls' = <<>>
    /\ shown' = Nothing
    /\ UNCHANGED <<frontend, backend, DEVTO_API_KEY, title, generated>>

\* if st.button("Approve and Publish to Dev.to"): ...   (app.py)
\* if st.button("Publish to Dev.to"): ...               (frontend.py)
PublishToDevto(reach, outcome) ==
    /\ PublishEnabled(session_state)
    /\ LET body == PublishBody(session_state)
           r == publish_to_devto(body, DEVTO_API_KEY, outcome)
           after == AfterPublish(session_state, r.resp)
       IN  /\ last' = "publish"
           /\ req' = [path |-> "/publish-to-devto", json |-> body]
           /\ IF reach = "down"
              THEN /\ resp' = NoResp
                   /\ calls' = <<>>
                   /\ shown' = ConnectionError
                   /\ UNCHANGED session_state
              ELSE /\ resp' = r.resp
                   /\ calls' = r.calls
                   /\ shown' = after.shown
                   /\ session_state' = after.session
    /\ UNCHANGED <<frontend, backend, DEVTO_API_KEY, title, generated>>

\* Request bodies of another client of the publish endpoint: published sent
\* as true, as false, or left out; one body lacks a required field.
ClientBodies ==
    {[title |-> <<"a">>, content |-> "body one"],
     [title |-> <<"a">>, content |-> "body one", published |-> FALSE],
     [title |-> <<"a">>, content |-> "body one", published |-> TRUE],
     [title |-> <<"a">>]}

\* Any HTTP client posts to /publish-to-devto; no script runs.
PostPublish(body, outcome) ==
    LET r == publish_to_devto(body, DEVTO_API_KEY, outcome)
    IN  /\ last' = "client"
        /\ req' = [path |-> "/publish-to-devto", json |-> body]
        /\ resp' = r.resp
        /\ calls' = r.calls
        /\ UNCHANGED <<frontend, backend, DEVTO_API_KEY, session_state, title, shown,
                       generated>>

Next ==
    \/ \E t \in Titles : EnterTitle(t)
    \/ \E reach \in {"up", "down"}, outcome \in ModelOutcomes :
           GenerateArticle(reach, outcome)
    \/ PreviewOnDevto
    \/ \E reach \in {"up", "down"}, outcome \in DevtoOutcomes(DEVTO_API_KEY) :
           PublishToDevto(reach, outcome)
    \/ \E body \in ClientBodies, outcome \in DevtoOutcomes(DEVTO_API_KEY) :
           PostPublish(body, outcome)

Spec == Init /\ [][Next]_vars

----------------------------------------------------------------------------
(* Properties                                                              *)

\* The stage of the session, read from the title and the preview flag:
\* Previewing when show_preview is set, Draft when a title is stored and it
\* is not, Empty otherwise.
Stage(s) ==
    IF Get(s, "show_preview", FALSE) THEN "Previewing"
    ELSE IF Has(s, "article_title") THEN "Draft"
    ELSE "Empty"

\* A generate or publish event of the script whose request failed: no answer,
\* an answer other than 200, or a 200 whose body says status "error".
FailedRequest ==
    /\ last \in {"generate", "publish"}
    /\ \/ resp = NoResp
       \/ resp.status_code # HTTP_OK
       \/ /\ last = "publish"
          /\ resp.json.status = "error"

\* dev.to's answer to the one call of the last publish request, if it got one.
DevtoAnswered ==
    /\ last \in {"publish", "client"}
    /\ calls # <<>>
    /\ calls[1].answer.kind = "response"

C1_ArticleStored == Has(session_state, "generated_article")

\* C1: in every reachable state the article is stored iff the stage is Draft
\* or Previewing, and no step of the script sends a publish request from
\* stage Empty.
C1_ArticleIffStage ==
    /\ [](C1_ArticleStored <=> Stage(session_state) \in {"Draft", "Previewing"})
    /\ [][last' = "publish" /\ req'.path = "/publish-to-devto"
            => Stage(session_state) # "Empty"]_vars

C1_Witness ==
    /\ last = "publish"
    /\ FailedRequest
    /\ C1_ArticleStored
    /\ Stage(session_state) = "Previewing"

\* C2: whenever a generate or publish request fails, the session is what it
\* was before and an error is shown (Streamlit's exception box counts as
\* one); when dev.to rejects the article the message shown is the one in the
\* {status: "error", message} body.
C2_FailureKeepsStateAndShowsError ==
    [][FailedRequest'
         => /\ session_state' = session_state
            /\ shown'.kind \in {"error", "exception"}
            /\ (resp' # NoResp /\ resp'.status_code = HTTP_OK
                  => shown' = [kind |-> "error", message |-> resp'.json.message])]_vars

\* C3: when the script's publish request is answered by dev.to with 201 and a
\* url, the session is cleared (article, title and preview flag removed, stage
\* Empty) and the success message carries that url.
C3_PublishSuccessClears ==
    (last = "publish" /\ DevtoAnswered /\ calls[1].answer.status_code = HTTP_CREATED)
      => /\ DOMAIN session_state = {}
         /\ Stage(session_state) = "Empty"
         /\ shown.kind = "success"
         /\ calls[1].answer.text = UrlText1 => shown.url = "https://dev.to/x/1"
         /\ calls[1].answer.text = UrlText99 => shown.url = "https://dev.to/x/99"

\* Empty -> generate -> Draft -> preview -> Previewing -> publish -> Empty has
\* been walked by app.py, with the url of the end-to-end scenario.
C3_Witness ==
    /\ frontend = "app"
    /\ last = "publish"
    /\ generated.article # None
    /\ calls # <<>>
    /\ calls[1].answer = [kind |-> "response", status_code |-> HTTP_CREATED,
                          text |-> UrlText99]
    /\ shown = [kind |-> "success", url |-> "https://dev.to/x/99"]
    /\ session_state = EmptySession

\* C4: for every answer of dev.to, the publish endpoint returns status
\* "success" with the url field of the answer's body exactly when the answer's
\* status is 201, and otherwise status "error" with the answer's raw body text
\* as the message.
C4_PublishOutcome ==
    DevtoAnswered
      => LET answer == calls[1].answer
         IN  /\ resp.status_code = HTTP_OK
             /\ (resp.json.status = "success") <=> (answer.status_code = 201)
             /\ (resp.json.status = "error") <=> (answer.status_code # 201)
             /\ answer.status_code = 201
                  => /\ DOMAIN resp.json = {"status", "url"}
                     /\ answer.text = UrlText1 => resp.json.url = "https://dev.to/x/1"
                     /\ answer.text = UrlText99 => resp.json.url = "https://dev.to/x/99"
             /\ answer.status_code # 201
                  => resp.json = [status |-> "error", message |-> answer.text]

\* A rejection whose body is no JSON, passed on verbatim.
C4_Witness ==
    /\ DevtoAnswered
    /\ calls[1].answer.text = BadGatewayText
    /\ resp.json.message = "<html>502 Bad Gateway</html>"

IsBlank(t) == \A i \in 1..Len(t) : t[i] = " "

\* C5: a generate request whose title is empty or only whitespace fails, makes
\* no outbound call, and stores no article.
C5_BlankTitleRejected ==
    [][last' = "generate" /\ IsBlank(req'.json.title)
         => /\ calls' = <<>>
            /\ resp' = NoResp \/ resp'.status_code # HTTP_OK
            /\ session_state' = session_state]_vars

\* C6: with no publishing API key in the environment, a publish request makes
\* no outbound call and is not answered as an ordinary outcome.
C6_NoKeyNoCall ==
    (last \in {"publish", "client"} /\ DEVTO_API_KEY = None)
      => /\ calls = <<>>
         /\ resp = NoResp \/ resp.status_code # HTTP_OK

\* C7: dev.to receives published: true only when the request sets published
\* to true; a request that leaves the field out is served exactly as the same
\* request with published: false.
C7_PublishedDefault ==
    /\ (last \in {"publish", "client"} /\ calls # <<>>)
         => (calls[1].json.article.published
               <=> ("published" \in DOMAIN req.json /\ req.json.published))
    /\ \A b \in ClientBodies, o \in DevtoOutcomes(DEVTO_API_KEY) :
         DOMAIN b = {"title", "content"}
           => publish_to_devto(b, DEVTO_API_KEY, o)
                = publish_to_devto([title |-> b.title, content |-> b.content,
                                    published |-> FALSE], DEVTO_API_KEY, o)

\* A request without the field has reached dev.to as a draft.
C7_Witness ==
    /\ last = "client"
    /\ "published" \notin DOMAIN req.json
    /\ calls # <<>>
    /\ calls[1].json.article.published = FALSE

\* sub occurs in s as a run of consecutive elements
Contains(s, sub) ==
    \E i \in 0..(Len(s) - Len(sub)) : \A j \in 1..Len(sub) : s[i + j] = sub[j]

C9_PreviewIsLocal ==
    [][last' = "preview"
         => /\ req' = NoReq
            /\ calls' = <<>>
            /\ Has(session_state, "generated_article")
            /\ Stage(session_state) # "Previewing"
            /\ Stage(session_state') = "Previewing"
            /\ DOMAIN session_state' = DOMAIN session_state
            /\ \A k \in DOMAIN session_state \ {"show_preview"} :
                 session_state'[k] = session_state[k]]_vars

C9_Witness ==
    /\ last = "preview"
    /\ Stage(session_state) = "Previewing"
    /\ session_state["article_title"] = <<"a">>

\* C10: a successful generate stores the title sent and the article returned,
\* whatever was stored before, and sets the stage to Draft; every publish
\* request of the script carries the title and article of the most recent
\* successful generate.
C10_ArticleReplacedWholesale ==
    /\ (last = "generate" /\ resp # NoResp /\ resp.status_code = HTTP_OK)
         => /\ session_state["generated_article"] = resp.json.article
            /\ session_state["article_title"] = req.json.title
            /\ Stage(session_state) = "Draft"
    /\ last = "publish"
         => req.json = [title |-> generated.title, content |-> generated.article]

\* A publish request sent after the title input was changed.
C10_Witness ==
    /\ last = "publish"
    /\ req.json.title = <<"a">>
    /\ title # <<"a">>
    /\ req.json.content = "body two"

====
